---------------------------- MODULE Spec2Model ----------------------------
(***************************************************************************)
(* ShopScout (src/shopscout.py): one invocation of research_product, run   *)
(* either as a module call or through the command-line entry point.        *)
(*                                                                         *)
(* Python strings are sequences of one-character strings.  An optional     *)
(* value (a str or None) is a record [isNone, val].  The remote service is *)
(* the environment: each attempt returns a response object, raises         *)
(* anthropic.RateLimitError, or raises some other Exception.               *)
(***************************************************************************)
EXTENDS Integers, Sequences, FiniteSets

VARIABLES
    runAsMain,      \* TRUE: run as __main__ (line 150); FALSE: module call
    argv,           \* sys.argv, argv[1] is the program name
    environ,        \* os.environ restricted to ANTHROPIC_API_KEY
    anthropicOk,    \* import anthropic / anthropic.Anthropic(...) succeed
    query,          \* the argument of research_product
    pc,             \* position of the process
    attempt,        \* the loop variable of line 99
    response,       \* the local `response` (bound by line 101)
    events,         \* log of network calls and sleeps, in order
    outcomes,       \* log of what the service did on each attempt
    clock,          \* total time slept
    lastRequest,    \* user message content of the last request sent
    exc,            \* the exception caught at line 146 (its str())
    result,         \* the value returned by research_product
    returnedAt,     \* the return statement that produced result
    invocations,    \* number of calls of research_product
    stdout,         \* what print() wrote, one entry per print
    exitCode        \* process exit status, NotExited while running

vars == <<runAsMain, argv, environ, anthropicOk, query, pc, attempt, response,
          events, outcomes, clock, lastRequest, exc, result, returnedAt,
          invocations, stdout, exitCode>>

-----------------------------------------------------------------------------
(* Bounds of the model *)

MaxBlocks == 2      \* content blocks in a response
MaxArgs == 2        \* command-line arguments after the program name

-----------------------------------------------------------------------------
(* String literals of the program *)

marker ==
    <<"S", "H", "O", "P", "S", "C", "O", "U", "T", " ", "R", "E", "S", "U",
      "L", "T", "S">>

NoKeyMsg ==
    <<"E", "r", "r", "o", "r", ":", " ", "A", "N", "T", "H", "R", "O", "P",
      "I", "C", "_", "A", "P", "I", "_", "K", "E", "Y", " ", "n", "o", "t",
      " ", "s", "e", "t">>

UsageMsg ==
    <<"S", "h", "o", "p", "S", "c", "o", "u", "t", ":", " ", "N", "o", " ",
      "q", "u", "e", "r", "y", " ", "p", "r", "o", "v", "i", "d", "e", "d",
      ".", "\n", "\n", "U", "s", "a", "g", "e", ":", " ", "p", "y", "t", "h",
      "o", "n", "3", " ", "s", "h", "o", "p", "s", "c", "o", "u", "t", ".",
      "p", "y", " ", "'", "S", "o", "n", "y", " ", "W", "H", "-", "1", "0",
      "0", "0", "X", "M", "5", " ", "h", "e", "a", "d", "p", "h", "o", "n",
      "e", "s", "'">>

RateLimitedMsg ==
    <<"S", "h", "o", "p", "S", "c", "o", "u", "t", " ", "i", "s", " ", "t",
      "e", "m", "p", "o", "r", "a", "r", "i", "l", "y", " ", "r", "a", "t",
      "e", "-", "l", "i", "m", "i", "t", "e", "d", ".", " ", "P", "l", "e",
      "a", "s", "e", " ", "t", "r", "y", " ", "a", "g", "a", "i", "n", " ",
      "i", "n", " ", "a", " ", "m", "i", "n", "u", "t", "e", ".">>

NoResults ==
    <<"(", "N", "o", " ", "r", "e", "s", "u", "l", "t", "s", " ", "r", "e",
      "t", "u", "r", "n", "e", "d", ")">>

ErrorPrefix ==
    <<"S", "h", "o", "p", "S", "c", "o", "u", "t", " ", "e", "r", "r", "o",
      "r", ":", " ">>

RequestPrefix ==
    <<"R", "e", "s", "e", "a", "r", "c", "h", " ", "a", "n", "d", " ", "c",
      "o", "m", "p", "a", "r", "e", " ", "p", "r", "i", "c", "e", "s", " ",
      "f", "o", "r", ":", " ">>

ImportErrorMsg ==
    <<"N", "o", " ", "m", "o", "d", "u", "l", "e", " ", "n", "a", "m", "e",
      "d", " ", "'", "a", "n", "t", "h", "r", "o", "p", "i", "c", "'">>

UnboundMsg ==
    <<"c", "a", "n", "n", "o", "t", " ", "a", "c", "c", "e", "s", "s", " ",
      "l", "o", "c", "a", "l", " ", "v", "a", "r", "i", "a", "b", "l", "e",
      " ", "'", "r", "e", "s", "p", "o", "n", "s", "e", "'", " ", "w", "h",
      "e", "r", "e", " ", "i", "t", " ", "i", "s", " ", "n", "o", "t", " ",
      "a", "s", "s", "o", "c", "i", "a", "t", "e", "d", " ", "w", "i", "t",
      "h", " ", "a", " ", "v", "a", "l", "u", "e">>

NoContentMsg ==
    <<"'", "M", "e", "s", "s", "a", "g", "e", "'", " ", "o", "b", "j", "e",
      "c", "t", " ", "h", "a", "s", " ", "n", "o", " ", "a", "t", "t", "r",
      "i", "b", "u", "t", "e", " ", "'", "c", "o", "n", "t", "e", "n", "t",
      "'">>

NotIterableMsg ==
    <<"'", "N", "o", "n", "e", "T", "y", "p", "e", "'", " ", "o", "b", "j",
      "e", "c", "t", " ", "i", "s", " ", "n", "o", "t", " ", "i", "t", "e",
      "r", "a", "b", "l", "e">>

NoTypeMsg ==
    <<"'", "B", "l", "o", "c", "k", "'", " ", "o", "b", "j", "e", "c", "t",
      " ", "h", "a", "s", " ", "n", "o", " ", "a", "t", "t", "r", "i", "b",
      "u", "t", "e", " ", "'", "t", "y", "p", "e", "'">>

JoinTypeMsgHead ==
    <<"s", "e", "q", "u", "e", "n", "c", "e", " ", "i", "t", "e", "m", " ">>

JoinTypeMsgTail ==
    <<":", " ", "e", "x", "p", "e", "c", "t", "e", "d", " ", "s", "t", "r",
      " ", "i", "n", "s", "t", "a", "n", "c", "e", ",", " ", "N", "o", "n",
      "e", "T", "y", "p", "e", " ", "f", "o", "u", "n", "d">>

-----------------------------------------------------------------------------
(* Python values and library functions *)

None == [isNone |-> TRUE, val |-> <<>>]

Some(s) == [isNone |-> FALSE, val |-> s]

KEYNAME == "ANTHROPIC_API_KEY"

Whitespace == {" ", "\n", "\t", "\r"}

Digits == <<"0", "1", "2", "3", "4", "5", "6", "7", "8", "9">>

NotExited == 0 - 1

SetMin(S) == CHOOSE x \in S : \A y \in S : x <= y

SetMax(S) == CHOOSE x \in S : \A y \in S : x >= y

\* os.getenv(name): the value, or None when the variable is unset
getenv(name) == IF name \in DOMAIN environ THEN Some(environ[name]) ELSE None

\* str.strip(): drop leading and trailing whitespace
Strip(s) ==
    LET keep == {i \in 1..Len(s) : s[i] \notin Whitespace}
    IN  IF keep = {} THEN <<>> ELSE SubSeq(s, SetMin(keep), SetMax(keep))

\* str.find(sub): 0-based index of the first occurrence, -1 when absent
Find_last(s, sub) ==
    LET hits == {i \in 0..(Len(s) - Len(sub)) :
                    SubSeq(s, i + 1, i + Len(sub)) = sub}
    IN  IF hits = {} THEN 0 - 1 ELSE SetMax(hits)

Find(s, sub) ==
    LET hits == {i \in 0..(Len(s) - Len(sub)) :
                    SubSeq(s, i + 1, i + Len(sub)) = sub}
    IN  IF hits = {} THEN 0 - 1 ELSE SetMin(hits)

\* s[i:], with Python's meaning of a negative start
SliceFrom(s, i) ==
    LET start == IF i >= 0 THEN i
                 ELSE IF Len(s) + i > 0 THEN Len(s) + i ELSE 0
    IN  SubSeq(s, start + 1, Len(s))

\* sep.join(parts)
RECURSIVE Join(_, _)
Join(sep, parts) ==
    IF parts = <<>> THEN <<>>
    ELSE IF Len(parts) = 1 THEN parts[1]
    ELSE parts[1] \o sep \o Join(sep, Tail(parts))

\* `not api_key` (line 85): None and "" are both falsy
Falsy_noneOnly(v) == v.isNone

Falsy(v) == v.isNone \/ v.val = <<>>

\* `not query or not query.strip()` (line 88)
IsBlank_emptyOnly(q) == q = <<>>

IsBlank(q) == q = <<>> \/ Strip(q) = <<>>

\* `len(sys.argv) < 2 or not sys.argv[1].strip()` (line 151); argv is 1-based
NoArgument_noStrip(a) == Len(a) < 2 \/ a[2] = <<>>

NoArgument(a) == Len(a) < 2 \/ Strip(a[2]) = <<>>

\* f"ShopScout error: {e}" (line 147)
ErrorString_noPrefix(msg) == msg

ErrorString(msg) == ErrorPrefix \o msg

\* range(3) of line 99
Attempts == 3

\* `attempt < 2` of line 128
LastRetry_one == 2 - 1

LastRetry_three == 2 + 1

LastRetry == 2

\* time.sleep(30) of line 129
BACKOFF_short == 30 - 27

BACKOFF == 30

-----------------------------------------------------------------------------
(* Responses of the service *)

TextBlock(s) ==
    [hasText |-> TRUE, text |-> Some(s), hasType |-> TRUE, type |-> "text"]

\* a server-side tool block: a type tag, no text attribute
ToolBlock ==
    [hasText |-> FALSE, text |-> None, hasType |-> TRUE,
     type |-> "server_tool_use"]

\* a block that carries a text attribute under another type tag
OtherTypedBlock ==
    [hasText |-> TRUE, text |-> Some(<<"z">>), hasType |-> TRUE,
     type |-> "thinking"]

\* a text-typed block whose text payload is None
NoneTextBlock ==
    [hasText |-> TRUE, text |-> None, hasType |-> TRUE, type |-> "text"]

\* an object with a text attribute and no type attribute
UntypedBlock ==
    [hasText |-> TRUE, text |-> Some(<<"u">>), hasType |-> FALSE,
     type |-> ""]

Fragments ==
    { <<>>,
      <<" ", "\n">>,
      <<" ", "h", "i", " ">>,
      <<"S", "u", "r", "e", ":", "\n">> \o marker \o <<"\n", "Q", " ">> }

Blocks ==
    {TextBlock(s) : s \in Fragments}
        \cup {ToolBlock, OtherTypedBlock, NoneTextBlock, UntypedBlock}

BlockLists == UNION {[1..n -> Blocks] : n \in 0..MaxBlocks}

\* the local `response` before line 101 binds it
Unbound ==
    [bound |-> FALSE, hasContent |-> FALSE, contentIsNone |-> FALSE,
     content |-> <<>>]

Message(blocks) ==
    [bound |-> TRUE, hasContent |-> TRUE, contentIsNone |-> FALSE,
     content |-> blocks]

\* a response object without a content attribute
NoContentMessage ==
    [bound |-> TRUE, hasContent |-> FALSE, contentIsNone |-> FALSE,
     content |-> <<>>]

\* a response object whose content is None
NoneContentMessage ==
    [bound |-> TRUE, hasContent |-> TRUE, contentIsNone |-> TRUE,
     content |-> <<>>]

Responses ==
    {Message(bl) : bl \in BlockLists}
        \cup {NoContentMessage, NoneContentMessage}

ExcMessages == { <<>>, <<"b", "o", "o", "m">> }

-----------------------------------------------------------------------------
(* Response extraction, lines 134-144 *)

Value(s) == [raised |-> FALSE, val |-> s]

Raise(msg) == [raised |-> TRUE, val |-> msg]

\* `hasattr(block, "text") and block.type == "text"` (line 137), for a block
\* on which the test does not raise
IsTextBlock_anyType(b) == b.hasText

IsTextBlock(b) == b.hasText /\ b.type = "text"

\* the test of line 137 raises AttributeError on this block
FilterRaises(b) == b.hasText /\ ~b.hasType

\* the list comprehension of lines 134-138 over blocks that do not raise
RECURSIVE TextParts(_)
TextParts(blocks) ==
    IF blocks = <<>> THEN <<>>
    ELSE IF IsTextBlock(Head(blocks))
         THEN <<Head(blocks).text>> \o TextParts(Tail(blocks))
         ELSE TextParts(Tail(blocks))

\* `x or default` on strings
OrDefault(s, d) == IF s = <<>> THEN d ELSE s

\* line 144; the conditional expression binds looser than `or`
Report(full_text) ==
    LET idx == Find(full_text, marker)
    IN  IF idx # 0 - 1
        THEN Strip(SliceFrom(full_text, idx))
        ELSE OrDefault(Strip(full_text), NoResults)

\* lines 134-144 on a content list: the report, or the exception raised
ExtractFromBlocks(content) ==
    IF \E i \in DOMAIN content : FilterRaises(content[i])
    THEN Raise(NoTypeMsg)
    ELSE LET parts == TextParts(content)
             bad == {i \in DOMAIN parts : parts[i].isNone}
         IN  IF bad # {}
             THEN Raise(JoinTypeMsgHead \o <<Digits[SetMin(bad)]>>
                            \o JoinTypeMsgTail)
             ELSE Value(Report(Join(<<"\n">>,
                                    [i \in DOMAIN parts |-> parts[i].val])))

\* lines 134-144 on the response r: the report, or the exception raised
ExtractReport_lenient(r) ==
    IF ~r.bound THEN Raise(UnboundMsg)
    ELSE IF ~r.hasContent \/ r.contentIsNone THEN Value(NoResults)
    ELSE ExtractFromBlocks(r.content)

ExtractReport(r) ==
    IF ~r.bound THEN Raise(UnboundMsg)
    ELSE IF ~r.hasContent THEN Raise(NoContentMsg)
    ELSE IF r.contentIsNone THEN Raise(NotIterableMsg)
    ELSE ExtractFromBlocks(r.content)

-----------------------------------------------------------------------------
(* The inputs of one run *)

Queries == { <<>>, <<" ", "\n">>, <<" ", "t", "v", "\t">> }

Environs ==
    { [n \in {} |-> <<>>],
      [n \in {KEYNAME} |-> <<>>],
      [n \in {KEYNAME} |-> <<"s", "k">>] }

ProgName == <<"s", "h", "o", "p", "s", "c", "o", "u", "t", ".", "p", "y">>

ArgLists == UNION {[1..n -> Queries] : n \in 0..MaxArgs}

Init ==
    /\ runAsMain \in BOOLEAN
    /\ environ \in Environs
    /\ anthropicOk \in BOOLEAN
    /\ IF runAsMain
       THEN /\ argv \in {<<ProgName>> \o a : a \in ArgLists}
            /\ query = <<>>
            /\ pc = "main"
       ELSE /\ argv = <<>>
            /\ query \in Queries
            /\ pc = "call"
    /\ attempt = 0
    /\ response = Unbound
    /\ events = <<>>
    /\ outcomes = <<>>
    /\ clock = 0
    /\ lastRequest = None
    /\ exc = None
    /\ result = None
    /\ returnedAt = "none"
    /\ invocations = 0
    /\ stdout = <<>>
    /\ exitCode = NotExited

-----------------------------------------------------------------------------
(* research_product, lines 82-147 *)

\* a return statement of research_product
Return(value, line) ==
    /\ result' = Some(value)
    /\ returnedAt' = line
    /\ pc' = "returned"

\* the handler of line 146
Catch(msg) ==
    /\ exc' = Some(msg)
    /\ Return(ErrorString(msg), "L147")

\* the user message of line 122
RequestContent == RequestPrefix \o Strip(query)

\* lines 84-97: the two guards, the import and the client
ResearchProductEnter ==
    /\ pc = "call"
    /\ invocations' = invocations + 1
    /\ LET api_key == getenv(KEYNAME)
       IN  IF Falsy(api_key)
           THEN Return(NoKeyMsg, "L86") /\ UNCHANGED exc
           ELSE IF IsBlank(query)
           THEN Return(UsageMsg, "L89") /\ UNCHANGED exc
           ELSE IF ~anthropicOk
           THEN Catch(ImportErrorMsg)
           ELSE /\ pc' = "attempt"
                /\ UNCHANGED <<exc, result, returnedAt>>
    /\ UNCHANGED <<runAsMain, argv, environ, anthropicOk, query, attempt,
                   response, events, outcomes, clock, lastRequest, stdout,
                   exitCode>>

\* line 101 returns r; break; lines 134-144 build the report
AttemptOk(r) ==
    /\ pc = "attempt"
    /\ events' = Append(events, "call")
    /\ outcomes' = Append(outcomes, "ok")
    /\ lastRequest' = Some(RequestContent)
    /\ response' = r
    /\ LET x == ExtractReport(r)
       IN  IF x.raised
           THEN Catch(x.val)
           ELSE Return(x.val, "L144") /\ UNCHANGED exc
    /\ UNCHANGED <<runAsMain, argv, environ, anthropicOk, query, attempt,
                   clock, invocations, stdout, exitCode>>

\* line 101 raises anthropic.RateLimitError: lines 127-131, and the next
\* iteration of the loop when there is one
AttemptRateLimited ==
    /\ pc = "attempt"
    /\ outcomes' = Append(outcomes, "rate_limit")
    /\ lastRequest' = Some(RequestContent)
    /\ IF attempt < LastRetry
       THEN /\ events' = events \o <<"call", "sleep">>
            /\ clock' = clock + BACKOFF
            /\ IF attempt + 1 < Attempts
               THEN /\ attempt' = attempt + 1
                    /\ pc' = "attempt"
                    /\ UNCHANGED <<exc, result, returnedAt>>
               ELSE \* the loop ends without break: line 136 reads an
                    \* unbound local
                    /\ Catch(ExtractReport(response).val)
                    /\ UNCHANGED attempt
       ELSE /\ events' = Append(events, "call")
            /\ Return(RateLimitedMsg, "L131")
            /\ UNCHANGED <<clock, attempt, exc>>
    /\ UNCHANGED <<runAsMain, argv, environ, anthropicOk, query, response,
                   invocations, stdout, exitCode>>

\* line 101 raises another Exception whose str() is msg: lines 146-147
AttemptRaises(msg) ==
    /\ pc = "attempt"
    /\ events' = Append(events, "call")
    /\ outcomes' = Append(outcomes, "error")
    /\ lastRequest' = Some(RequestContent)
    /\ Catch(msg)
    /\ UNCHANGED <<runAsMain, argv, environ, anthropicOk, query, attempt,
                   response, clock, invocations, stdout, exitCode>>

-----------------------------------------------------------------------------
(* The command-line entry point, lines 150-158 *)

\* lines 151-156, or the call of line 158
MainGuard ==
    /\ pc = "main"
    /\ IF NoArgument(argv)
       THEN /\ stdout' = Append(stdout, UsageMsg)
            /\ exitCode' = 0
            /\ pc' = "exited"
            /\ UNCHANGED query
       ELSE /\ query' = argv[2]
            /\ pc' = "call"
            /\ UNCHANGED <<stdout, exitCode>>
    /\ UNCHANGED <<runAsMain, argv, environ, anthropicOk, attempt, response,
                   events, outcomes, clock, lastRequest, exc, result,
                   returnedAt, invocations>>

\* the print of line 158, then the interpreter exits
MainWrite ==
    /\ pc = "returned"
    /\ runAsMain
    /\ stdout' = Append(stdout, result.val)
    /\ exitCode' = 0
    /\ pc' = "exited"
    /\ UNCHANGED <<runAsMain, argv, environ, anthropicOk, query, attempt,
                   response, events, outcomes, clock, lastRequest, exc,
                   result, returnedAt, invocations>>

Next ==
    \/ MainGuard
    \/ ResearchProductEnter
    \/ \E r \in Responses : AttemptOk(r)
    \/ AttemptRateLimited
    \/ \E msg \in ExcMessages : AttemptRaises(msg)
    \/ MainWrite

Spec == Init /\ [][Next]_vars

\* the process is single-threaded and every call it makes returns or raises
FairSpec == Spec /\ WF_vars(Next)

-----------------------------------------------------------------------------
(* Vocabulary of the properties *)

Calls == Cardinality({i \in DOMAIN events : events[i] = "call"})

Sleeps == Cardinality({i \in DOMAIN events : events[i] = "sleep"})

Invoked == invocations > 0

Returned == returnedAt # "none"

KeyMissing == KEYNAME \notin DOMAIN environ \/ environ[KEYNAME] = <<>>

BlankText(q) == \A i \in DOMAIN q : q[i] \in Whitespace

LastOutcome == IF outcomes = <<>> THEN "none" ELSE outcomes[Len(outcomes)]

RateLimits(n) == [i \in 1..n |-> "rate_limit"]

\* n rounds of a call followed by a sleep
Backoffs(n) == [i \in 1..(2 * n) |-> IF i % 2 = 1 THEN "call" ELSE "sleep"]

TextTyped(b) == b.hasText /\ b.hasType /\ b.type = "text"

\* the text payloads of the text-typed blocks, in order
RECURSIVE Payloads(_)
Payloads(blocks) ==
    IF blocks = <<>> THEN <<>>
    ELSE IF TextTyped(Head(blocks))
         THEN <<Head(blocks).text.val>> \o Payloads(Tail(blocks))
         ELSE Payloads(Tail(blocks))

JoinedText(r) == Join(<<"\n">>, Payloads(r.content))

\* 1-based positions at which the marker occurs in t
MarkerAt(t) ==
    {i \in 1..(Len(t) - Len(marker) + 1) :
        \A j \in 1..Len(marker) : t[i + j - 1] = marker[j]}

FromFirstMarker(t) == SubSeq(t, SetMin(MarkerAt(t)), Len(t))

\* a content list without a text-bearing block
NoTextBearing(r) ==
    /\ r.bound /\ r.hasContent /\ ~r.contentIsNone
    /\ \A i \in DOMAIN r.content :
          \/ ~r.content[i].hasText
          \/ r.content[i].hasType /\ r.content[i].type # "text"

EmptyContent(r) ==
    r.bound /\ r.hasContent /\ ~r.contentIsNone /\ r.content = <<>>

\* content missing, content None, or a text-typed block with a None payload
Malformed(r) ==
    /\ r.bound
    /\ \/ ~r.hasContent
       \/ r.contentIsNone
       \/ \E i \in DOMAIN r.content :
             TextTyped(r.content[i]) /\ r.content[i].text.isNone

-----------------------------------------------------------------------------
(* Properties *)

\* C1 as stated: every invocation with an empty or whitespace-only query
\* returns the usage string and makes no network call and no sleep.
C1_Original ==
    (Invoked /\ BlankText(query))
        => (result = Some(UsageMsg) /\ events = <<>>)

\* C1, amended: when ANTHROPIC_API_KEY is set and non-empty, every invocation
\* with an empty or whitespace-only query returns the usage string from line
\* 89 and makes no network call and no sleep.
C1_Amended ==
    (Invoked /\ BlankText(query) /\ ~KeyMissing)
        => /\ result = Some(UsageMsg)
           /\ returnedAt = "L89"
           /\ events = <<>>
           /\ outcomes = <<>>

C1_Witness ==
    /\ Invoked /\ ~KeyMissing
    /\ query # <<>> /\ BlankText(query)
    /\ result = Some(UsageMsg)

\* C2: when ANTHROPIC_API_KEY is unset or empty, research_product returns
\* "Error: ANTHROPIC_API_KEY not set" and makes no network call, whatever the
\* query is (blank queries included).
C2_NoKey ==
    (Invoked /\ KeyMissing)
        => /\ result = Some(NoKeyMsg)
           /\ returnedAt = "L86"
           /\ events = <<>>
           /\ outcomes = <<>>

C2_Witness ==
    /\ Invoked
    /\ KEYNAME \in DOMAIN environ /\ environ[KEYNAME] = <<>>
    /\ BlankText(query)
    /\ result = Some(NoKeyMsg)

\* C3: three consecutive rate-limit signals give exactly three attempts and
\* exactly two sleeps, one after attempt 1 and one after attempt 2, none after
\* attempt 3, no fourth attempt, and the fixed rate-limited message.
C3_RateLimitExhausted ==
    /\ Len(outcomes) <= 3
    /\ \A n \in 1..2 :
          outcomes = RateLimits(n)
              => /\ pc = "attempt"
                 /\ ~Returned
                 /\ events = Backoffs(n)
    /\ outcomes = RateLimits(3)
          => /\ pc \in {"returned", "exited"}
             /\ events = Backoffs(2) \o <<"call">>
             /\ result = Some(RateLimitedMsg)
             /\ returnedAt = "L131"

C3_Witness ==
    /\ outcomes = RateLimits(3)
    /\ result = Some(RateLimitedMsg)
    /\ Sleeps = 2

\* C4: k rate-limit signals (k = 0, 1, 2) followed by a response give exactly
\* k+1 attempts and k sleeps of 30, each sleep between two consecutive
\* attempts, nothing after the response, and the returned value is what lines
\* 134-144 extract from that response.
C4_RetryThenSuccess ==
    \A k \in 0..2 :
        outcomes = RateLimits(k) \o <<"ok">>
            => /\ pc \in {"returned", "exited"}
               /\ events = Backoffs(k) \o <<"call">>
               /\ clock = 30 * k
               /\ LET x == ExtractFromBlocks(response.content)
                  IN  IF Malformed(response) \/ x.raised
                      THEN returnedAt = "L147"
                      ELSE returnedAt = "L144" /\ result = Some(x.val)

C4_Witness ==
    /\ outcomes = RateLimits(2) \o <<"ok">>
    /\ returnedAt = "L144"
    /\ clock = 60
    /\ MarkerAt(result.val) = {1}

\* C5: a non-rate-limit failure on attempt 1, 2 or 3 is caught and not
\* retried: it is the last outcome, only rate-limit retries precede it, no
\* sleep follows it, and the returned string is "ShopScout error: " followed
\* by the exception's message.
C5_OtherErrorNotRetried ==
    LET n == Len(outcomes)
    IN  /\ \A i \in 1..(n - 1) : outcomes[i] = "rate_limit"
        /\ LastOutcome = "error"
              => /\ pc \in {"returned", "exited"}
                 /\ returnedAt = "L147"
                 /\ ~exc.isNone
                 /\ result = Some(ErrorPrefix \o exc.val)
                 /\ events = Backoffs(n - 1) \o <<"call">>
                 /\ clock = 30 * (n - 1)

C5_Witness ==
    /\ outcomes = RateLimits(2) \o <<"error">>
    /\ exc = Some(<<"b", "o", "o", "m">>)
    /\ Returned

\* C6 as stated: the report is the joined text from the first marker on,
\* trimmed, when the marker occurs, and otherwise the full joined text
\* trimmed.
C6_Original ==
    returnedAt = "L144"
        => LET t == JoinedText(response)
           IN  result.val = IF MarkerAt(t) # {}
                            THEN Strip(FromFirstMarker(t))
                            ELSE Strip(t)

\* C6, amended: the report is the joined text from the first marker on,
\* trimmed, when the marker occurs; otherwise the full joined text trimmed
\* when that is non-empty, and "(No results returned)" when it is empty.
C6_Amended ==
    returnedAt = "L144"
        => LET t == JoinedText(response)
           IN  result.val = IF MarkerAt(t) # {}
                            THEN Strip(FromFirstMarker(t))
                            ELSE IF Strip(t) # <<>> THEN Strip(t)
                            ELSE NoResults

C6_Witness ==
    /\ returnedAt = "L144"
    /\ LET t == JoinedText(response)
       IN  /\ Cardinality(MarkerAt(t)) = 2
           /\ SetMin(MarkerAt(t)) > 1
           /\ Len(result.val) < Len(t) - SetMin(MarkerAt(t)) + 1
           /\ MarkerAt(result.val)
                = {1, SetMax(MarkerAt(t)) - SetMin(MarkerAt(t)) + 1}

\* C7: a response without text-bearing blocks (an empty content list, or only
\* blocks whose type is not text) gives "(No results returned)", and the
\* report is the same as for the response with its non-text blocks removed.
C7_NoTextBlocks ==
    /\ (LastOutcome = "ok" /\ NoTextBearing(response))
          => (result = Some(NoResults) /\ returnedAt = "L144")
    /\ returnedAt = "L144"
          => result.val
               = ExtractFromBlocks(SelectSeq(response.content, TextTyped)).val

C7_Witness ==
    /\ LastOutcome = "ok"
    /\ NoTextBearing(response)
    /\ \E i \in DOMAIN response.content : response.content[i].hasText
    /\ result = Some(NoResults)

\* C8 as stated: an empty or malformed response from a call that did not fail
\* gives "(No results returned)", not an error string.
C8_Original ==
    (LastOutcome = "ok" /\ (EmptyContent(response) \/ Malformed(response)))
        => (result = Some(NoResults) /\ returnedAt = "L144")

\* C8, amended: an empty content list from a call that did not fail gives
\* "(No results returned)"; a malformed response (content missing or None, or
\* a text-typed block whose text is not a string) raises inside the
\* extraction, is caught at line 146, and gives "ShopScout error: " followed
\* by the exception's message.
C8_Amended ==
    LastOutcome = "ok"
        => /\ EmptyContent(response)
                => (result = Some(NoResults) /\ returnedAt = "L144")
           /\ Malformed(response)
                => /\ returnedAt = "L147"
                   /\ ~exc.isNone
                   /\ result = Some(ErrorPrefix \o exc.val)
                   /\ result # Some(NoResults)

C8_Witness ==
    /\ LastOutcome = "ok"
    /\ response = NoneContentMessage
    /\ result = Some(ErrorPrefix \o NotIterableMsg)

C9_Bounded ==
    /\ Calls <= 3
    /\ Sleeps <= 2
    /\ Calls = Len(outcomes)
    /\ ~Returned
          => (result = None /\ pc \in {"main", "call", "attempt", "exited"})
    /\ (~Returned /\ pc = "exited") => ~Invoked
    /\ Returned
          => /\ ~result.isNone
             /\ result.val # <<>>
             /\ pc \in {"returned", "exited"}
             /\ \/ returnedAt = "L86" /\ result.val = NoKeyMsg /\ KeyMissing
                \/ returnedAt = "L89" /\ result.val = UsageMsg
                \/ returnedAt = "L131" /\ result.val = RateLimitedMsg
                \/ returnedAt = "L144" /\ LastOutcome = "ok"
                \/ returnedAt = "L147"
                     /\ SubSeq(result.val, 1, Len(ErrorPrefix)) = ErrorPrefix

\* C9: whatever the query, the credential and the service do, an invocation of
\* research_product returns, from exactly one of its return statements, a
\* non-empty string that is never changed afterwards, after at most 3 network
\* calls and at most 2 sleeps.
C9_TerminatesBounded ==
    /\ []C9_Bounded
    /\ [][Returned => (result' = result /\ returnedAt' = returnedAt
                          /\ events' = events)]_vars
    /\ (pc = "call") ~> Returned

C9_Witness ==
    /\ Returned
    /\ returnedAt = "L147"
    /\ Calls = 3
    /\ Sleeps = 2

C10_ExitZero ==
    runAsMain
        => /\ exitCode \in {NotExited, 0}
           /\ (pc = "exited") <=> (exitCode = 0)
           /\ invocations <= 1
           /\ pc # "exited" => stdout = <<>>
           /\ (Len(argv) < 2 \/ BlankText(argv[2]))
                => (invocations = 0 /\ events = <<>>)
           /\ pc = "exited"
                => IF Len(argv) < 2 \/ BlankText(argv[2])
                   THEN stdout = <<UsageMsg>>
                   ELSE /\ invocations = 1
                        /\ query = argv[2]
                        /\ Returned
                        /\ stdout = <<result.val>>

\* C10: the command-line entry point always exits with code 0 after exactly
\* one print: the usage message, without calling research_product, when there
\* is no argument or the first argument is blank; otherwise the string that
\* one call of research_product on the first argument returned, error strings
\* included.
C10_CliExitsZero ==
    /\ []C10_ExitZero
    /\ <>(runAsMain => pc = "exited")

C10_Witness ==
    /\ runAsMain
    /\ pc = "exited"
    /\ exitCode = 0
    /\ returnedAt = "L147"
    /\ stdout = <<result.val>>

=============================================================================
